---------------------------- MODULE Spec2Model ----------------------------
(***************************************************************************)
(* A model of utils.py: the plugin acquisition pipeline (remote tree and   *)
(* folder fetchers, dependency installer, build orchestrator, entry-point  *)
(* resolver).                                                              *)
(*                                                                         *)
(* Python strings are modelled as sequences of one-character strings, so   *)
(* that indexing, slicing, splitting and the regular expressions of the    *)
(* source are computed character by character.                             *)
(***************************************************************************)
EXTENDS Integers, Sequences, FiniteSets, TLC

VARIABLES
    install_path,   \* the install_path / directory argument of the running call
    dirs,           \* directories that exist on disk (absolute paths)
    files,          \* plain files that exist on disk (absolute paths)
    execs,          \* files that carry the exec permission
    tree,           \* dl_github_repo: json_content["tree"]
    tpos,           \* dl_github_repo: position of the for loop in the tree
    tstatus,        \* dl_github_repo: "idle", "start", "run", "done" or the exception raised
    requests,       \* dl_github_repo: the blob requests issued, in order
    stack,          \* dl_folder_from_github: the frames of the running (recursive) calls
    fstatus,        \* dl_folder_from_github: "idle", "run", "done" or the exception raised
    flog,           \* dl_folder_from_github: calls, requests, entries and delegations, in order
    possible_filenames, \* get_main_file: the candidate substrings, in order
    content,        \* get_main_file: the listing of install_path
    mtodo,          \* get_main_file: the children of tmp_file still to move up
    mstatus,        \* get_main_file: "idle", "start", "unwrap", "scan", "single", "returned", "OSError"
    mresult,        \* get_main_file: the value returned
    disk0,          \* get_main_file: the files and directories before the call
    lines_of,       \* the lines of the requirements files on disk, by path
    rcontent,       \* handle_requirements: the listing of the directory
    rpos,           \* handle_requirements: position of the loop over the listing
    lpos,           \* handle_requirements: position of the loop over the lines of the file
    rstatus,        \* handle_requirements: "idle", "start", "run", "done" or the exception raised
    rlines,         \* handle_requirements: the lines read, in order
    pipcalls,       \* the arguments of the calls of pip_install, in order
    installs,       \* the requirements given to "pip install" subprocesses, in order
    installed,      \* the installed version of package "a" (0: not installed)
    hasversion,     \* whether module "a" has a __version__ attribute
    bcontent,       \* handle_compilation: the listing of the directory
    bpos,           \* handle_compilation: position of the second loop
    bstatus,        \* handle_compilation: "idle", "start", "go", "done" or the exception raised
    toolcalls       \* handle_compilation: the build tools invoked, in order

treeVars == <<tree, tpos, tstatus, requests>>
diskVars == <<dirs, files, execs>>
folderVars == <<stack, fstatus, flog>>
mainVars == <<possible_filenames, content, mtodo, mstatus, mresult, disk0>>
reqVars == <<lines_of, rcontent, rpos, lpos, rstatus, rlines, pipcalls, installs,
             installed, hasversion>>
buildVars == <<bcontent, bpos, bstatus, toolcalls>>
vars == <<install_path, dirs, files, execs, tree, tpos, tstatus, requests,
          stack, fstatus, flog,
          possible_filenames, content, mtodo, mstatus, mresult, disk0,
          lines_of, rcontent, rpos, lpos, rstatus, rlines, pipcalls, installs,
          installed, hasversion,
          bcontent, bpos, bstatus, toolcalls>>

---------------------------------------------------------------------------
(* Bounds of the model *)
MaxTree == 3
\* entries in the tree of a submodule that dl_folder_from_github delegates
MaxSubTree == 1
MaxDepth == 2
\* entries of a directory given to get_main_file
MaxEntries == 2
\* candidate substrings given to get_main_file
MaxCandidates == 2
\* lines in the requirements files of a directory, all files together
MaxLines == 2
\* entries of a directory given to handle_compilation
MaxNames == 3
\* the newest version of package "a" that pip can install
LatestVersion == 3

---------------------------------------------------------------------------
(* str operations *)

StartsWith(s, p) == Len(p) <= Len(s) /\ SubSeq(s, 1, Len(p)) = p

EndsWith(s, p) == Len(p) <= Len(s) /\ SubSeq(s, Len(s) - Len(p) + 1, Len(s)) = p

OccursAt(s, p, i) == i + Len(p) - 1 <= Len(s) /\ SubSeq(s, i, i + Len(p) - 1) = p

\* p in s
Contains(s, p) == \E i \in 1..(Len(s) + 1) : OccursAt(s, p, i)

\* s.find(p) + 1
FirstAt(s, p) ==
    IF Contains(s, p)
    THEN CHOOSE i \in 1..(Len(s) + 1) :
            OccursAt(s, p, i) /\ \A j \in 1..(i - 1) : ~OccursAt(s, p, j)
    ELSE 0

RECURSIVE StrSplit(_, _)
\* s.split(sep), sep not empty
StrSplit(s, sep) ==
    LET i == FirstAt(s, sep)
    IN  IF i = 0
        THEN <<s>>
        ELSE <<SubSeq(s, 1, i - 1)>> \o StrSplit(SubSeq(s, i + Len(sep), Len(s)), sep)

RECURSIVE StrJoin(_, _)
\* sep.join(parts)
StrJoin(parts, sep) ==
    IF Len(parts) = 0 THEN <<>>
    ELSE IF Len(parts) = 1 THEN parts[1]
    ELSE parts[1] \o sep \o StrJoin(Tail(parts), sep)

Slash == <<"/">>

\* os.path.join(a, b)
PathJoin(a, b) ==
    IF StartsWith(b, Slash) THEN b
    ELSE IF a = <<>> \/ EndsWith(a, Slash) THEN a \o b
    ELSE a \o Slash \o b

\* os.mkdir in place of os.makedirs: the parents are not made
MakedirsSet_OnlyLeaf(target) == {target}

\* the directories os.makedirs(target) makes sure exist: target and its parents
MakedirsSet(target) ==
    LET parts == StrSplit(target, Slash)
    IN  {StrJoin(SubSeq(parts, 1, k), Slash) : k \in 2..Len(parts)}

\* the directory a file is opened in
Dirname(p) ==
    LET parts == StrSplit(p, Slash)
    IN  StrJoin(SubSeq(parts, 1, Len(parts) - 1), Slash)

---------------------------------------------------------------------------
(* Inputs of dl_github_repo *)

RootDir == <<"/", "p">>

\* the install_path arguments: the plugin directory, with or without a trailing '/'
InstallPaths == {RootDir, RootDir \o Slash}

\* paths of a repository tree, in the order the tree API lists them
TreePaths ==
    << <<".", "g">>,
       <<".", "g", "/", "h">>,
       <<"d">>,
       <<"d", "/", ".", "k">>,
       <<"d", "/", "e">>,
       <<"d", "/", "e", "/", "f">>,
       <<"m">> >>

TreeModes == {"040000", "100644", "100755"}

TreeEntries == [pi : 1..Len(TreePaths), mode : TreeModes]

\* a listing names each path once, in order, and only a directory has entries beneath it
WellFormedTree(l) ==
    /\ \A i, j \in 1..Len(l) : i < j => l[i].pi < l[j].pi
    /\ \A i, j \in 1..Len(l) :
          StartsWith(TreePaths[l[j].pi], TreePaths[l[i].pi] \o Slash) => l[i].mode = "040000"

TreeListings ==
    {l \in UNION {[1..n -> TreeEntries] : n \in 0..MaxTree} : WellFormedTree(l)}

PathOf(element) == TreePaths[element.pi]

NoResponse == [encoding |-> "none", content |-> "none"]

BlobResponses == [encoding : {"base64", "utf-16"}, content : {"valid", "invalid"}]

---------------------------------------------------------------------------
(* dl_github_repo *)

\* the request for the tree and the parse of its answer
TreeFetch ==
    /\ tstatus = "start"
    /\ \/ /\ tstatus' = "URLError"
          /\ UNCHANGED <<tree, tpos>>
       \/ \E l \in TreeListings :
             /\ stack # <<>> => Len(l) <= MaxSubTree
             /\ tree' = l
             /\ tpos' = 1
             /\ tstatus' = "run"
    /\ UNCHANGED <<install_path, requests, diskVars, folderVars, mainVars, reqVars, buildVars>>

\* only a '.git' path is skipped
IsHidden_OnlyGit(path) == StartsWith(path, <<".", "g", "i", "t">>)

\* element["path"][0] == '.'
IsHidden(path) == path[1] = "."

\* element["mode"] == "040000"
IsDirEntry(element) == element.mode = "040000"

\* len(element["path"].split('/')) > 1
HasSubdirs(path) == Len(StrSplit(path, Slash)) > 1

\* os.makedirs(os.path.join(install_path, subdirs), exist_ok=True)
SubdirsOf(ip, abs_path) == PathJoin(ip, Dirname(abs_path))

\* the assertion dropped: every encoding is decoded as base64
EncodingAccepted_Any(resp) == TRUE

\* assert blob_json["encoding"] == "base64"
EncodingAccepted(resp) == resp.encoding = "base64"

\* one iteration of the for loop over the tree
TreeStep ==
    /\ tstatus = "run"
    /\ tpos <= Len(tree)
    /\ LET element  == tree[tpos]
           path     == PathOf(element)
           abs_path == PathJoin(install_path, path)
           made     == IF HasSubdirs(path)
                       THEN MakedirsSet(SubdirsOf(install_path, abs_path))
                       ELSE {}
       IN  IF IsHidden(path) \/ IsDirEntry(element)
           THEN /\ tpos' = tpos + 1
                /\ UNCHANGED <<tstatus, requests, diskVars>>
           ELSE IF made \cap files # {}
           THEN \* makedirs over a plain file
                /\ tstatus' = "OSError"
                /\ UNCHANGED <<tpos, requests, diskVars>>
           ELSE \E resp \in BlobResponses \cup {NoResponse} :
                /\ dirs' = dirs \cup made
                /\ requests' = Append(requests, [idx |-> tpos, resp |-> resp])
                /\ IF resp = NoResponse
                   THEN /\ tstatus' = "URLError"
                        /\ UNCHANGED <<tpos, files, execs>>
                   ELSE IF ~EncodingAccepted(resp)
                   THEN /\ tstatus' = "AssertionError"
                        /\ UNCHANGED <<tpos, files, execs>>
                   ELSE IF abs_path \in dirs' \/ Dirname(abs_path) \notin dirs'
                   THEN \* open() of a directory, or in a missing directory
                        /\ tstatus' = "OSError"
                        /\ UNCHANGED <<tpos, files, execs>>
                   ELSE IF resp.content = "invalid"
                   THEN \* write_file: the file is opened, then the decoding fails
                        /\ files' = files \cup {abs_path}
                        /\ tstatus' = "DecodeError"
                        /\ UNCHANGED <<tpos, execs>>
                   ELSE /\ files' = files \cup {abs_path}
                        /\ execs' = IF element.mode = "100755"
                                    THEN execs \cup {abs_path}
                                    ELSE execs
                        /\ tpos' = tpos + 1
                        /\ UNCHANGED tstatus
    /\ UNCHANGED <<install_path, tree, folderVars, mainVars, reqVars, buildVars>>

\* the loop is over: dl_github_repo returns
TreeReturn ==
    /\ tstatus = "run"
    /\ tpos > Len(tree)
    /\ tstatus' = "done"
    /\ UNCHANGED <<install_path, tree, tpos, requests, diskVars, folderVars, mainVars, reqVars, buildVars>>

EmptyDisk ==
    /\ dirs = {RootDir}
    /\ files = {}
    /\ execs = {}

IdleFolder ==
    /\ stack = <<>>
    /\ fstatus = "idle"
    /\ flog = <<>>

IdleReq ==
    /\ lines_of = <<>>
    /\ rcontent = <<>>
    /\ rpos = 1
    /\ lpos = 1
    /\ rstatus = "idle"
    /\ rlines = <<>>
    /\ pipcalls = <<>>
    /\ installs = <<>>
    /\ installed = 0
    /\ hasversion = FALSE

IdleBuild ==
    /\ bcontent = <<>>
    /\ bpos = 1
    /\ bstatus = "idle"
    /\ toolcalls = <<>>

IdleMain ==
    /\ possible_filenames = <<>>
    /\ content = <<>>
    /\ mtodo = <<>>
    /\ mstatus = "idle"
    /\ mresult = <<>>
    /\ disk0 = [files |-> {}, dirs |-> {}]

InitTree ==
    /\ install_path \in InstallPaths
    /\ EmptyDisk
    /\ tree = <<>>
    /\ tpos = 1
    /\ tstatus = "start"
    /\ requests = <<>>
    /\ IdleFolder
    /\ IdleMain
    /\ IdleReq
    /\ IdleBuild

NextTree == TreeFetch \/ TreeStep \/ TreeReturn

SpecTree == InitTree /\ [][NextTree]_vars

---------------------------------------------------------------------------
(* Properties of dl_github_repo *)

AbsPathOfEntry(i) == PathJoin(install_path, PathOf(tree[i]))

DotPath(path) == StartsWith(path, <<".">>)

\* C1: when a blob carries an encoding other than "base64" the fetch aborts with
\* an error: the entry's file is not written, that request is the last one
\* issued, the loop does not move on, and the files on disk are exactly those
\* written for the entries requested before it.
C1_UnsupportedEncodingAborts ==
    \A k \in 1..Len(requests) :
        requests[k].resp.encoding \notin {"base64", "none"} =>
            /\ tstatus = "AssertionError"
            /\ k = Len(requests)
            /\ tpos = requests[k].idx
            /\ AbsPathOfEntry(requests[k].idx) \notin files
            /\ files = {AbsPathOfEntry(requests[j].idx) : j \in 1..(k - 1)}

\* C1 witness: an abort on an unsupported encoding after an earlier file was
\* written and with a later file entry still in the listing.
C1_Witness ==
    /\ tstatus = "AssertionError"
    /\ Len(requests) >= 2
    /\ requests[Len(requests)].resp.encoding = "utf-16"
    /\ files # {}
    /\ \E i \in (tpos + 1)..Len(tree) :
          ~DotPath(PathOf(tree[i])) /\ tree[i].mode # "040000"

FileBeneath(i) ==
    \E j \in 1..Len(tree) :
        /\ tree[j].mode # "040000"
        /\ StartsWith(PathOf(tree[j]), PathOf(tree[i]) \o Slash)

---------------------------------------------------------------------------
(* Inputs of dl_folder_from_github *)

ApiUrl ==
    << "h", "t", "t", "p", "s", ":", "/", "/",
       "a", "p", "i", ".", "g", "i", "t", "h", "u", "b", ".", "c", "o", "m",
       "/", "r", "e", "p", "o", "s", "/", "o", "/", "r",
       "/", "c", "o", "n", "t", "e", "n", "t", "s", "/", "d" >>

\* a page of another site
OtherUrl ==
    << "h", "t", "t", "p", "s", ":", "/", "/", "x", ".", "i", "o", "/", "d" >>

\* the url arguments of the top-level call
FolderUrls ==
    { ApiUrl, ApiUrl \o Slash, OtherUrl,
      <<"f", "t", "p", ":", "d", "/", "w">>, <<"/", "c">> }

\* names of the entries of a contents listing, in the order the API lists them
EntryNames == << <<"s">>, <<"t">> >>

\* download_url: the key is absent, or its value is null, or a url;
\* submodule: the entry has the key "submodule_git_url"
EntryShapes ==
    { [download_url |-> "url", submodule |-> FALSE],
      [download_url |-> "null", submodule |-> FALSE],
      [download_url |-> "null", submodule |-> TRUE],
      [download_url |-> "absent", submodule |-> TRUE],
      [download_url |-> "absent", submodule |-> FALSE] }

ContentsEntries ==
    [ni : 1..Len(EntryNames), download_url : {"url", "null", "absent"}, submodule : BOOLEAN]

ContentsListings ==
    { l \in UNION {[1..n -> ContentsEntries] : n \in 0..Len(EntryNames)} :
        /\ \A i, j \in 1..Len(l) : i < j => l[i].ni < l[j].ni
        /\ \A i \in 1..Len(l) :
              [download_url |-> l[i].download_url, submodule |-> l[i].submodule]
                  \in EntryShapes }

NameOf(i) == EntryNames[i.ni]

\* the parsed answers of the contents API: a list, or a single object
ContentsAnswers ==
    [kind : {"list"}, listing : ContentsListings, submodule : {FALSE}]
        \cup [kind : {"object"}, listing : {<<>>}, submodule : BOOLEAN]

\* the remote tree is finite: no folder entry below the last level
HasFolderEntry(answer) ==
    \E i \in 1..Len(answer.listing) : answer.listing[i].download_url = "null"

Event(ev, ip, url, name) == [ev |-> ev, ip |-> ip, url |-> url, name |-> name]

---------------------------------------------------------------------------
(* dl_folder_from_github *)

CharsOf(s) == {s[i] : i \in 1..Len(s)}

\* the two character classes of r"[api.github.com/repos/]+[/contents/]+"
UrlClass1 ==
    CharsOf(<< "a", "p", "i", ".", "g", "i", "t", "h", "u", "b", ".", "c", "o", "m",
               "/", "r", "e", "p", "o", "s", "/" >>)

UrlClass2 == CharsOf(<< "/", "c", "o", "n", "t", "e", "n", "t", "s", "/" >>)

\* re.search(r"[api.github.com/repos/]+[/contents/]+", url)
UrlMatches(url) ==
    \E i \in 1..(Len(url) - 1) : url[i] \in UrlClass1 /\ url[i + 1] \in UrlClass2

\* url + i["name"] if url[:-1] == '/' else url + '/' + i["name"]
SubfolderUrl(url, name) ==
    IF SubSeq(url, 1, Len(url) - 1) = Slash
    THEN url \o name
    ELSE url \o Slash \o name

Top == stack[Len(stack)]

Frame(ip, url) == [ip |-> ip, url |-> url, phase |-> "enter", listing |-> <<>>, pos |-> 1]

SetTop(f) == [stack EXCEPT ![Len(stack)] = f]

\* the head of a call: the url check, the request, the parse of the answer
FolderEnter ==
    /\ fstatus = "run"
    /\ stack # <<>>
    /\ Top.phase = "enter"
    /\ IF ~UrlMatches(Top.url)
       THEN /\ fstatus' = "ValueError: Unsupported url"
            /\ UNCHANGED <<stack, flog, install_path, treeVars>>
       ELSE \/ /\ fstatus' = "URLError"
               /\ flog' = Append(flog, Event("request", Top.ip, Top.url, <<>>))
               /\ UNCHANGED <<stack, install_path, treeVars>>
            \/ \E answer \in ContentsAnswers :
                  /\ Len(stack) >= MaxDepth => ~HasFolderEntry(answer)
                  /\ IF answer.kind = "list"
                     THEN /\ stack' = SetTop([Top EXCEPT !.phase = "loop",
                                                         !.listing = answer.listing])
                          /\ flog' = Append(flog, Event("request", Top.ip, Top.url, <<>>))
                          /\ UNCHANGED <<fstatus, install_path, treeVars>>
                     ELSE IF answer.submodule
                     THEN \* dl_github_repo(install_path, json_content["git_url"])
                          /\ stack' = SetTop([Top EXCEPT !.phase = "delegated"])
                          /\ flog' = flog \o << Event("request", Top.ip, Top.url, <<>>),
                                                Event("delegate", Top.ip, Top.url, <<>>) >>
                          /\ install_path' = Top.ip
                          /\ tstatus' = "start"
                          /\ UNCHANGED <<fstatus, tree, tpos, requests>>
                     ELSE /\ fstatus' = "ValueError: Could not parse json"
                          /\ flog' = Append(flog, Event("request", Top.ip, Top.url, <<>>))
                          /\ UNCHANGED <<stack, install_path, treeVars>>
    /\ UNCHANGED <<diskVars, mainVars, reqVars, buildVars>>

\* one iteration of the for loop over the listing
FolderEntry ==
    /\ fstatus = "run"
    /\ stack # <<>>
    /\ Top.phase = "loop"
    /\ Top.pos <= Len(Top.listing)
    /\ LET i    == Top.listing[Top.pos]
           dest == PathJoin(Top.ip, NameOf(i))
           seen == Append(flog, Event("entry", Top.ip, Top.url, NameOf(i)))
       IN  IF i.download_url = "url"
           THEN \* urllib.request.urlretrieve(i["download_url"], dest)
                \/ /\ files' = files \cup {dest}
                   /\ stack' = SetTop([Top EXCEPT !.pos = Top.pos + 1])
                   /\ flog' = Append(seen, Event("download", Top.ip, Top.url, NameOf(i)))
                   /\ UNCHANGED <<fstatus, dirs, execs>>
                \/ /\ fstatus' = "URLError"
                   /\ flog' = Append(seen, Event("download", Top.ip, Top.url, NameOf(i)))
                   /\ UNCHANGED <<stack, diskVars>>
           ELSE IF i.download_url = "null"
           THEN \* create_dir(new_install_path), then the recursive call
                /\ dirs' = dirs \cup MakedirsSet(dest)
                /\ stack' = Append(stack, Frame(dest, SubfolderUrl(Top.url, NameOf(i))))
                /\ flog' = Append(seen, Event("call", dest,
                                              SubfolderUrl(Top.url, NameOf(i)), NameOf(i)))
                /\ UNCHANGED <<fstatus, files, execs>>
           ELSE IF i.submodule
           THEN \* json_content is a list: json_content["submodule_git_url"] raises
                /\ fstatus' = "TypeError"
                /\ flog' = seen
                /\ UNCHANGED <<stack, diskVars>>
           ELSE /\ stack' = SetTop([Top EXCEPT !.pos = Top.pos + 1])
                /\ flog' = seen
                /\ UNCHANGED <<fstatus, diskVars>>
    /\ UNCHANGED <<install_path, treeVars, mainVars, reqVars, buildVars>>

\* the stack once the running call has returned to its caller's loop
Popped ==
    IF Len(stack) = 1
    THEN <<>>
    ELSE LET rest   == SubSeq(stack, 1, Len(stack) - 1)
             caller == rest[Len(rest)]
         IN  [rest EXCEPT ![Len(rest)] = [caller EXCEPT !.pos = caller.pos + 1]]

\* the loop is over: the call returns
FolderReturn ==
    /\ fstatus = "run"
    /\ stack # <<>>
    /\ Top.phase = "loop"
    /\ Top.pos > Len(Top.listing)
    /\ stack' = Popped
    /\ fstatus' = IF Len(stack) = 1 THEN "done" ELSE fstatus
    /\ UNCHANGED <<flog, install_path, diskVars, treeVars, mainVars, reqVars, buildVars>>

\* dl_github_repo has returned: the return of line 123
FolderDelegateReturn ==
    /\ fstatus = "run"
    /\ stack # <<>>
    /\ Top.phase = "delegated"
    /\ tstatus = "done"
    /\ stack' = Popped
    /\ fstatus' = IF Len(stack) = 1 THEN "done" ELSE fstatus
    /\ tstatus' = "idle"
    /\ tree' = <<>>
    /\ tpos' = 1
    /\ requests' = <<>>
    /\ UNCHANGED <<flog, install_path, diskVars, mainVars, reqVars, buildVars>>

\* dl_github_repo has raised: the exception goes through every frame
FolderDelegateRaise ==
    /\ fstatus = "run"
    /\ stack # <<>>
    /\ Top.phase = "delegated"
    /\ tstatus \notin {"idle", "start", "run", "done"}
    /\ fstatus' = tstatus
    /\ UNCHANGED <<stack, flog, install_path, diskVars, treeVars, mainVars, reqVars, buildVars>>

InitFolder ==
    /\ install_path = RootDir
    /\ EmptyDisk
    /\ tree = <<>>
    /\ tpos = 1
    /\ tstatus = "idle"
    /\ requests = <<>>
    /\ \E url \in FolderUrls :
          /\ stack = <<Frame(RootDir, url)>>
          /\ flog = <<Event("call", RootDir, url, <<>>)>>
    /\ fstatus = "run"
    /\ IdleMain
    /\ IdleReq
    /\ IdleBuild

NextFolder ==
    \/ FolderEnter \/ FolderEntry \/ FolderReturn
    \/ FolderDelegateReturn \/ FolderDelegateRaise
    \/ TreeFetch \/ TreeStep \/ TreeReturn

SpecFolder == InitFolder /\ [][NextFolder]_vars

---------------------------------------------------------------------------
(* Properties of dl_folder_from_github *)

ReposPart ==
    << "a", "p", "i", ".", "g", "i", "t", "h", "u", "b", ".", "c", "o", "m",
       "/", "r", "e", "p", "o", "s", "/" >>

ContentsPart == << "/", "c", "o", "n", "t", "e", "n", "t", "s", "/" >>

\* the url has the shape api.github.com/repos/<...>/contents/<...>
HasContentsShape(url) ==
    \E i \in 1..Len(url) :
        /\ OccursAt(url, ReposPart, i)
        /\ \E j \in (i + Len(ReposPart))..Len(url) : OccursAt(url, ContentsPart, j)

\* C2 (as claimed): a call, top-level or recursive, whose url does not have the
\* directory-contents API shape raises 'Unsupported url' and nothing, in
\* particular no request, follows the call.
C2_UnsupportedUrlRejected ==
    \A k \in 1..Len(flog) :
        (flog[k].ev = "call" /\ ~HasContentsShape(flog[k].url)) =>
            /\ k = Len(flog)
            /\ \/ fstatus = "ValueError: Unsupported url"
               \/ fstatus = "run" /\ Top.phase = "enter"

\* the entry has no download url field but carries a submodule marker
MarkerOnly(i) == i.download_url = "absent" /\ i.submodule

\* C8 (as claimed): a list entry with no download url field and a submodule
\* marker does not make the call raise, and once the loop is past it the entry
\* has been delegated to dl_github_repo rooted at InstallPath/name.
C8_SubmoduleEntryDelegated ==
    /\ fstatus # "TypeError"
    /\ \A d \in 1..Len(stack) : \A j \in 1..Len(stack[d].listing) :
          (MarkerOnly(stack[d].listing[j]) /\ j < stack[d].pos) =>
              \E k \in 1..Len(flog) :
                  /\ flog[k].ev = "delegate"
                  /\ flog[k].ip = PathJoin(stack[d].ip, NameOf(stack[d].listing[j]))

\* C9 (as claimed): a recursive call is made in the created directory
\* InstallPath/name with the parent url followed by the entry name, a '/'
\* between them exactly when the parent url does not end in '/'.
C9_SubfolderUrlSeparator ==
    \A k \in 2..Len(flog) :
        (flog[k].ev = "call" /\ flog[k - 1].ev = "entry") =>
            LET parent == flog[k - 1].url
                name   == flog[k].name
            IN  /\ flog[k].ip = PathJoin(flog[k - 1].ip, name)
                /\ flog[k].ip \in dirs
                /\ flog[k].url = IF EndsWith(parent, Slash)
                                 THEN parent \o name
                                 ELSE parent \o Slash \o name

---------------------------------------------------------------------------
(* The file system calls of get_main_file *)

Basename(p) ==
    LET parts == StrSplit(p, Slash)
    IN  parts[Len(parts)]

\* the names os.listdir(p) returns
ListdirNames(p) == {Basename(q) : q \in {r \in files \cup dirs : r # p /\ Dirname(r) = p}}

\* os.listdir returns the names in arbitrary order
Orders(S) ==
    {o \in [1..Cardinality(S) -> S] : \A i, j \in 1..Cardinality(S) : o[i] = o[j] => i = j}

\* os.rename(src, dst) raises OSError
RenameFails(src, dst) ==
    \/ dst \in dirs /\ (src \in files \/ ListdirNames(dst) # {})
    \/ dst \in files /\ src \in dirs

\* the paths of a set after os.rename(src, dst)
Renamed(paths, src, dst) ==
    { IF q = src \/ StartsWith(q, src \o Slash)
      THEN dst \o SubSeq(q, Len(src) + 1, Len(q))
      ELSE q : q \in paths }

---------------------------------------------------------------------------
(* Inputs of get_main_file *)

HiddenDir == <<"/", ".", "c">>

\* the install_path arguments of get_main_file
MainInstallPaths == {RootDir, HiddenDir}

N_w == <<"w">>
N_md == <<"m", "d">>
N_mpy == <<"m", ".", "p", "y">>

FileNames ==
    { N_mpy, N_w,
      <<"m", ".", "g", "o">>,
      <<"m", ".", "c">>,
      <<"m", ".", "c", "p", "p">>,
      <<"m", ".", "c", "f", "g">> }

DirNames == {N_w, N_md}

DirEntries == [name : FileNames, kind : {"file"}] \cup [name : DirNames, kind : {"dir"}]

\* at most MaxEntries entries with different names
EntrySets(lo) ==
    { S \in SUBSET DirEntries :
        /\ Cardinality(S) >= lo
        /\ Cardinality(S) <= MaxEntries
        /\ \A a, b \in S : a.name = b.name => a = b }

\* the entries S in directory p; a directory among them holds one file, m.py
FilesIn(p, S) ==
    {PathJoin(p, e.name) : e \in {x \in S : x.kind = "file"}}
        \cup {PathJoin(PathJoin(p, e.name), N_mpy) : e \in {x \in S : x.kind = "dir"}}

DirsIn(p, S) == {PathJoin(p, e.name) : e \in {x \in S : x.kind = "dir"}}

\* install_path holding the entries T, or one wrapping directory D holding S
MainDisks(ip) ==
    { [files |-> FilesIn(ip, T), dirs |-> {ip} \cup DirsIn(ip, T)] : T \in EntrySets(1) }
        \cup
    { [files |-> FilesIn(PathJoin(ip, D), S),
       dirs  |-> {ip, PathJoin(ip, D)} \cup DirsIn(PathJoin(ip, D), S)] :
          D \in DirNames, S \in EntrySets(0) }

CandidateLists == UNION {[1..n -> {<<"m">>, <<"w">>}] : n \in 0..MaxCandidates}

\* None
NotFound == <<>>

---------------------------------------------------------------------------
(* get_main_file *)

\* re.findall(r"^.*\.cpp|\.c|\.go$", path): "^.*\.cpp", or "\.c", or "\.go$"
SourcePattern(path) ==
    \/ Contains(path, <<".", "c", "p", "p">>)
    \/ Contains(path, <<".", "c">>)
    \/ EndsWith(path, <<".", "g", "o">>)

\* the list the for loop of line 68 iterates over
Kept(ip, listing) ==
    SelectSeq(listing, LAMBDA f : PathJoin(ip, f) \in files /\ ~SourcePattern(PathJoin(ip, f)))

\* possible_filename in filename, for some possible_filename
MatchesCandidate(filename, cands) ==
    \E c \in 1..Len(cands) : Contains(filename, cands[c])

\* the loops of lines 68-76
ScanResult(ip, listing, cands) ==
    LET kept == Kept(ip, listing)
        hits == {i \in 1..Len(kept) : MatchesCandidate(kept[i], cands)}
    IN  IF hits = {}
        THEN NotFound
        ELSE PathJoin(ip, kept[CHOOSE i \in hits : \A j \in hits : i <= j])

TmpFile == PathJoin(install_path, content[1])

\* lines 53-60: the listing, the single file, the start of the unwrapping
MainList ==
    /\ mstatus = "start"
    /\ \E listing \in Orders(ListdirNames(install_path)) :
          /\ content' = listing
          /\ IF Len(listing) = 1
             THEN LET tmp_file == PathJoin(install_path, listing[1])
                  IN  IF tmp_file \notin dirs
                      THEN /\ mresult' = tmp_file
                           /\ mstatus' = "single"
                           /\ UNCHANGED mtodo
                      ELSE /\ \E inner \in Orders(ListdirNames(tmp_file)) : mtodo' = inner
                           /\ mstatus' = "unwrap"
                           /\ UNCHANGED mresult
             ELSE /\ mstatus' = "scan"
                  /\ UNCHANGED <<mtodo, mresult>>
    /\ UNCHANGED <<install_path, diskVars, treeVars, folderVars, reqVars, buildVars,
                   possible_filenames, disk0>>

\* lines 61-63: one os.rename of the unwrapping
MainRename ==
    /\ mstatus = "unwrap"
    /\ mtodo # <<>>
    /\ LET src == PathJoin(TmpFile, Head(mtodo))
           dst == PathJoin(install_path, Head(mtodo))
       IN  IF RenameFails(src, dst)
           THEN /\ mstatus' = "OSError"
                /\ UNCHANGED <<mtodo, diskVars>>
           ELSE /\ files' = Renamed(files \ {dst}, src, dst)
                /\ dirs' = Renamed(dirs \ {dst}, src, dst)
                /\ mtodo' = Tail(mtodo)
                /\ UNCHANGED <<mstatus, execs>>
    /\ UNCHANGED <<install_path, treeVars, folderVars, reqVars, buildVars,
                   possible_filenames, content, mresult, disk0>>

\* lines 64-65: os.rmdir, and the new listing
MainRmdir ==
    /\ mstatus = "unwrap"
    /\ mtodo = <<>>
    /\ IF ListdirNames(TmpFile) # {}
       THEN /\ mstatus' = "OSError"
            /\ UNCHANGED <<content, diskVars>>
       ELSE /\ dirs' = dirs \ {TmpFile}
            /\ \E listing \in
                  Orders({Basename(q) :
                            q \in {r \in files \cup dirs' :
                                     r # install_path /\ Dirname(r) = install_path}}) :
                  content' = listing
            /\ mstatus' = "scan"
            /\ UNCHANGED <<files, execs>>
    /\ UNCHANGED <<install_path, treeVars, folderVars, reqVars, buildVars,
                   possible_filenames, mtodo, mresult, disk0>>

\* lines 66-76: the search of the main file
MainScan ==
    /\ mstatus = "scan"
    /\ mresult' = ScanResult(install_path, content, possible_filenames)
    /\ mstatus' = "returned"
    /\ UNCHANGED <<install_path, diskVars, treeVars, folderVars, reqVars, buildVars,
                   possible_filenames, content, mtodo, disk0>>

IdleTree ==
    /\ tree = <<>>
    /\ tpos = 1
    /\ tstatus = "idle"
    /\ requests = <<>>

InitMain ==
    /\ install_path \in MainInstallPaths
    /\ \E d \in MainDisks(install_path) :
          /\ files = d.files
          /\ dirs = d.dirs
          /\ disk0 = d
    /\ execs = {}
    /\ possible_filenames \in CandidateLists
    /\ content = <<>>
    /\ mtodo = <<>>
    /\ mstatus = "start"
    /\ mresult = <<>>
    /\ IdleTree
    /\ IdleFolder
    /\ IdleReq
    /\ IdleBuild

NextMain == MainList \/ MainRename \/ MainRmdir \/ MainScan

SpecMain == InitMain /\ [][NextMain]_vars

---------------------------------------------------------------------------
(* Properties of get_main_file *)

\* install_path held one entry, a directory, before the call
WrappedAtStart ==
    /\ Cardinality({q \in disk0.files \cup disk0.dirs :
                      q # install_path /\ Dirname(q) = install_path}) = 1
    /\ \E q \in disk0.dirs : q # install_path /\ Dirname(q) = install_path

Wrapper0 == CHOOSE q \in disk0.dirs : q # install_path /\ Dirname(q) = install_path

\* a path of the wrapping directory, one level up
Unwrapped(q) == install_path \o SubSeq(q, Len(Wrapper0) + 1, Len(q))

\* C4 (as claimed): when install_path holds a single directory D, whatever the
\* names of D's children, the call returns, and then D's former children are
\* the children of install_path, deeper levels are as they were under D, D is
\* gone, and the value returned is not found or a file of the new listing.
C4_UnwrapCompletes ==
    (WrappedAtStart /\ mstatus \in {"returned", "single", "OSError"}) =>
        /\ mstatus = "returned"
        /\ files = {Unwrapped(q) : q \in disk0.files}
        /\ dirs = {install_path} \cup {Unwrapped(q) : q \in disk0.dirs \ {install_path, Wrapper0}}
        /\ mresult \in {NotFound} \cup {PathJoin(install_path, content[i]) : i \in 1..Len(content)}

\* the name ends in ".cpp", ".c" or ".go"
CompiledSourceName(f) ==
    \/ EndsWith(f, <<".", "c", "p", "p">>)
    \/ EndsWith(f, <<".", "c">>)
    \/ EndsWith(f, <<".", "g", "o">>)

\* the plain files of the listing whose name contains a candidate and is not
\* the name of a compiled-language source
Eligible ==
    {i \in 1..Len(content) :
        /\ PathJoin(install_path, content[i]) \in files
        /\ ~CompiledSourceName(content[i])
        /\ \E c \in 1..Len(possible_filenames) : Contains(content[i], possible_filenames[c])}

\* C10 (as claimed): when the single-entry shortcut does not apply, the value
\* returned is the path of the first eligible file of the listing, and not
\* found exactly when no file is eligible.
C10_FirstEligibleFileReturned ==
    mstatus = "returned" =>
        mresult = IF Eligible = {}
                  THEN NotFound
                  ELSE PathJoin(install_path,
                                content[CHOOSE i \in Eligible : \A j \in Eligible : i <= j])

---------------------------------------------------------------------------
(* Inputs of handle_requirements *)

NL == <<"\n">>

F_requirements ==
    << "r", "e", "q", "u", "i", "r", "e", "m", "e", "n", "t", "s", ".", "t", "x", "t" >>

F_dev ==
    << "d", "e", "v", "-", "r", "e", "q", "u", "i", "r", "e", "m", "e", "n", "t", "s" >>

F_setup == << "s", "e", "t", "u", "p", ".", "p", "y" >>

\* the lines a requirements file is made of
Lines ==
    { NL,
      <<" ">>,
      <<" ", "\t", "\n">>,
      <<"a", "\n">>,
      <<"a", "=", "=", "2", "\n">>,
      <<"a", ">", "=", "1", "\n">> }

\* only the last line of a file can lack its newline
FileTexts ==
    { t \in UNION {[1..n -> Lines] : n \in 0..MaxLines} :
        \A i \in 1..(Len(t) - 1) : EndsWith(t[i], NL) }

\* the directories given to handle_requirements: each file name with its lines
ReqDirectories ==
    { d \in UNION {[N -> FileTexts] : N \in SUBSET {F_requirements, F_dev, F_setup}} :
        /\ DOMAIN d # {}
        /\ (F_setup \in DOMAIN d => d[F_setup] = <<>>)
        /\ (F_requirements \in DOMAIN d /\ F_dev \in DOMAIN d)
              => Len(d[F_requirements]) + Len(d[F_dev]) <= MaxLines }

---------------------------------------------------------------------------
(* pip_install *)

\* package.split("==")[0], or package.split(">=")[0] if ">=" in package
PackageName(package) ==
    IF Contains(package, <<">", "=">>)
    THEN StrSplit(package, <<">", "=">>)[1]
    ELSE StrSplit(package, <<"=", "=">>)[1]

\* importlib.util.find_spec(package_name) is None
SpecIsNone(package_name, inst) == ~(package_name = <<"a">> /\ inst > 0)

\* version.parse of the text after "=="
ParseVersion(text) ==
    CASE text[1] = "1" -> 1
      [] text[1] = "2" -> 2
      [] text[1] = "3" -> 3
      [] OTHER -> 0

\* pip accepts the requirement: it names package "a"
ValidRequirement(package) == StartsWith(package, <<"a">>)

\* the version of "a" once "pip install <package>" has succeeded
VersionInstalled(package) ==
    IF Contains(package, <<"=", "=">>)
    THEN ParseVersion(StrSplit(package, <<"=", "=">>)[2])
    ELSE LatestVersion

\* the outcome of pip_install(package) when the subprocesses end as ok1 and ok2:
\* the exception raised ("none": it returns), the pip subprocesses run, the
\* version installed
PipInstall(package, inst, ok1, ok2) ==
    LET name     == PackageName(package)
        first    == SpecIsNone(name, inst)
        failed1  == first /\ ~(ok1 /\ ValidRequirement(package))
        inst1    == IF first /\ ~failed1 THEN VersionInstalled(package) ELSE inst
        pinned   == Contains(package, <<"=", "=">>)
        wanted   == ParseVersion(StrSplit(package, <<"=", "=">>)[2])
        noimport == SpecIsNone(name, inst1)
        second   == pinned /\ ~noimport /\ hasversion /\ wanted > inst1
        failed2  == second /\ ~ok2
        run1     == IF first THEN <<package>> ELSE <<>>
        run2     == IF second THEN <<package>> ELSE <<>>
    IN  IF failed1
        THEN [raised |-> "CalledProcessError", runs |-> run1, version |-> inst]
        ELSE IF pinned /\ noimport
        THEN [raised |-> "ModuleNotFoundError", runs |-> run1, version |-> inst1]
        ELSE IF failed2
        THEN [raised |-> "CalledProcessError", runs |-> run1 \o run2, version |-> inst1]
        ELSE [raised |-> "none", runs |-> run1 \o run2,
              version |-> IF second THEN wanted ELSE inst1]

---------------------------------------------------------------------------
(* handle_requirements *)

\* line 148
ReqList ==
    /\ rstatus = "start"
    /\ \E listing \in Orders(ListdirNames(install_path)) : rcontent' = listing
    /\ rstatus' = "run"
    /\ UNCHANGED <<install_path, diskVars, treeVars, folderVars, mainVars, buildVars,
                   lines_of, rpos, lpos, rlines, pipcalls, installs, installed, hasversion>>

\* "requirements" in filename
IsRequirementsFile(filename) ==
    Contains(filename, << "r", "e", "q", "u", "i", "r", "e", "m", "e", "n", "t", "s" >>)

\* line not in {'\n', ' '}
LineIsRead(line) == line \notin {NL, <<" ">>}

CurrentFile == PathJoin(install_path, rcontent[rpos])

\* lines 149-151: a file that is not a requirements file is passed over
ReqSkipFile ==
    /\ rstatus = "run"
    /\ rpos <= Len(rcontent)
    /\ ~IsRequirementsFile(rcontent[rpos])
    /\ rpos' = rpos + 1
    /\ UNCHANGED <<install_path, diskVars, treeVars, folderVars, mainVars, buildVars,
                   lines_of, rcontent, lpos, rstatus, rlines, pipcalls, installs,
                   installed, hasversion>>

\* lines 152-155: one line of a requirements file
ReqLine ==
    /\ rstatus = "run"
    /\ rpos <= Len(rcontent)
    /\ IsRequirementsFile(rcontent[rpos])
    /\ lpos <= Len(lines_of[CurrentFile])
    /\ LET line == lines_of[CurrentFile][lpos]
       IN  /\ rlines' = Append(rlines, line)
           /\ IF LineIsRead(line)
              THEN \E ok1, ok2 \in BOOLEAN :
                      LET out == PipInstall(line, installed, ok1, ok2)
                      IN  /\ pipcalls' = Append(pipcalls, line)
                          /\ installs' = installs \o out.runs
                          /\ installed' = out.version
                          /\ IF out.raised = "none"
                             THEN lpos' = lpos + 1 /\ UNCHANGED rstatus
                             ELSE rstatus' = out.raised /\ UNCHANGED lpos
              ELSE /\ lpos' = lpos + 1
                   /\ UNCHANGED <<rstatus, pipcalls, installs, installed>>
    /\ UNCHANGED <<install_path, diskVars, treeVars, folderVars, mainVars, buildVars,
                   lines_of, rcontent, rpos, hasversion>>

\* the end of a requirements file
ReqNextFile ==
    /\ rstatus = "run"
    /\ rpos <= Len(rcontent)
    /\ IsRequirementsFile(rcontent[rpos])
    /\ lpos > Len(lines_of[CurrentFile])
    /\ rpos' = rpos + 1
    /\ lpos' = 1
    /\ UNCHANGED <<install_path, diskVars, treeVars, folderVars, mainVars, buildVars,
                   lines_of, rcontent, rstatus, rlines, pipcalls, installs,
                   installed, hasversion>>

\* the end of the listing: handle_requirements returns
ReqReturn ==
    /\ rstatus = "run"
    /\ rpos > Len(rcontent)
    /\ rstatus' = "done"
    /\ UNCHANGED <<install_path, diskVars, treeVars, folderVars, mainVars, buildVars,
                   lines_of, rcontent, rpos, lpos, rlines, pipcalls, installs,
                   installed, hasversion>>

InitReq ==
    /\ install_path = RootDir
    /\ \E d \in ReqDirectories :
          /\ files = {PathJoin(RootDir, n) : n \in DOMAIN d}
          /\ lines_of = [q \in {PathJoin(RootDir, n) : n \in DOMAIN d} |->
                            d[Basename(q)]]
    /\ dirs = {RootDir}
    /\ execs = {}
    /\ rcontent = <<>>
    /\ rpos = 1
    /\ lpos = 1
    /\ rstatus = "start"
    /\ rlines = <<>>
    /\ pipcalls = <<>>
    /\ installs = <<>>
    /\ installed \in 0..2
    /\ hasversion \in BOOLEAN
    /\ IdleTree
    /\ IdleFolder
    /\ IdleMain
    /\ IdleBuild

NextReq == ReqList \/ ReqSkipFile \/ ReqLine \/ ReqNextFile \/ ReqReturn

SpecReq == InitReq /\ [][NextReq]_vars

---------------------------------------------------------------------------
(* Properties of handle_requirements *)

\* the line is blank or whitespace-only
BlankLine(line) == \A i \in 1..Len(line) : line[i] \in {" ", "\t", "\n"}

\* C5 (as claimed): of the lines read from the requirements files, pip_install
\* is called once, in order, on each line that is not blank or whitespace-only,
\* and no call of pip_install and no pip subprocess is given a blank or
\* whitespace-only line.
C5_BlankLinesSkipped ==
    /\ pipcalls = SelectSeq(rlines, LAMBDA line : ~BlankLine(line))
    /\ \A k \in 1..Len(installs) : ~BlankLine(installs[k])

---------------------------------------------------------------------------
(* Inputs of handle_compilation *)

N_Makefile == << "M", "a", "k", "e", "f", "i", "l", "e" >>

BuildNames ==
    { N_Makefile, N_mpy,
      <<"R">>,
      <<"m", ".", "g", "o">>,
      <<"m", ".", "x", ".", "g", "o">>,
      <<"m", ".", "g", "o", ".", "x">> }

BuildDirectories == {S \in SUBSET BuildNames : Cardinality(S) <= MaxNames}

---------------------------------------------------------------------------
(* handle_compilation *)

\* [name for name in content if '.' in name]
Dotted(listing) == SelectSeq(listing, LAMBDA name : Contains(name, <<".">>))

\* filename.split('.')[1] == "go"
IsGoFile(filename) == StrSplit(filename, <<".">>)[2] = <<"g", "o">>

\* lines 162-167: the listing and the Makefile case
BuildMake ==
    /\ bstatus = "start"
    /\ \E listing \in Orders(ListdirNames(install_path)) :
          /\ bcontent' = listing
          /\ IF \E k \in 1..Len(listing) : listing[k] = N_Makefile
             THEN /\ toolcalls' = Append(toolcalls, "make")
                  /\ \/ bstatus' = "done"
                     \/ bstatus' = "CalledProcessError"
             ELSE /\ bstatus' = "go"
                  /\ UNCHANGED toolcalls
    /\ UNCHANGED <<install_path, diskVars, treeVars, folderVars, mainVars, reqVars, bpos>>

\* lines 169-176: one iteration of the loop over the names with a '.'
BuildGo ==
    /\ bstatus = "go"
    /\ bpos <= Len(Dotted(bcontent))
    /\ IF IsGoFile(Dotted(bcontent)[bpos])
       THEN /\ toolcalls' = Append(toolcalls, "go build")
            /\ \/ bpos' = bpos + 1 /\ UNCHANGED bstatus
               \/ bstatus' = "Exception: Could not 'go build'" /\ UNCHANGED bpos
       ELSE /\ bpos' = bpos + 1
            /\ UNCHANGED <<bstatus, toolcalls>>
    /\ UNCHANGED <<install_path, diskVars, treeVars, folderVars, mainVars, reqVars, bcontent>>

\* the loop is over: handle_compilation returns
BuildReturn ==
    /\ bstatus = "go"
    /\ bpos > Len(Dotted(bcontent))
    /\ bstatus' = "done"
    /\ UNCHANGED <<install_path, diskVars, treeVars, folderVars, mainVars, reqVars,
                   bcontent, bpos, toolcalls>>

InitBuild ==
    /\ install_path = RootDir
    /\ \E S \in BuildDirectories : files = {PathJoin(RootDir, n) : n \in S}
    /\ dirs = {RootDir}
    /\ execs = {}
    /\ bcontent = <<>>
    /\ bpos = 1
    /\ bstatus = "start"
    /\ toolcalls = <<>>
    /\ IdleTree
    /\ IdleFolder
    /\ IdleMain
    /\ IdleReq

NextBuild == BuildMake \/ BuildGo \/ BuildReturn

SpecBuild == InitBuild /\ [][NextBuild]_vars

---------------------------------------------------------------------------
(* Properties of handle_compilation *)

Invoked(tool) == \E k \in 1..Len(toolcalls) : toolcalls[k] = tool

\* C6 (as claimed): once handle_compilation has ended, with a Makefile in the
\* directory make was invoked once and the Go build never; without one make was
\* not invoked and the Go build was invoked if and only if some name ends in ".go".
C6_BuildDispatch ==
    bstatus \notin {"idle", "start", "go"} =>
        IF PathJoin(install_path, N_Makefile) \in files
        THEN toolcalls = <<"make">>
        ELSE /\ ~Invoked("make")
             /\ Invoked("go build") <=>
                   \E q \in files : EndsWith(Basename(q), <<".", "g", "o">>)

---------------------------------------------------------------------------
(* The whole module: any one of the operations, from its first step *)

Init == InitTree \/ InitFolder \/ InitMain \/ InitReq \/ InitBuild

Next == NextTree \/ NextFolder \/ NextMain \/ NextReq \/ NextBuild

Spec == Init /\ [][Next]_vars

=============================================================================
